---- MODULE Spec2Model ----
(***************************************************************************)
(* A model of imap-archive (src/src/main.rs): the batching loop of main,   *)
(* process_messages (FETCH, classification by year, per-year               *)
(* create_folder / archive_messages) and the folder-existence cache        *)
(* EXISTING_YEARS behind its Mutex.  The IMAP server is the environment:   *)
(* every request (FETCH, LIST, CREATE, MOVE) is answered nondeterminis-    *)
(* tically with one of the answers the imap crate can hand back.           *)
(*                                                                         *)
(* Spec     one run of main, from the search result to exit.               *)
(* SpecApi  create_folder called by several callers, any number of times   *)
(*          and for any year, also after a call has failed.                *)
(***************************************************************************)
EXTENDS Integers, Sequences, FiniteSets, TLC

\* const MAX_UIDS: usize = 256;
MAX_UIDS == 256

(***************************************************************************)
(* Bounds of the model.                                                    *)
(***************************************************************************)
\* the search result has at most MaxSearch identifiers
MaxSearch == 257
\* the calendar years of the model are FirstYear .. FirstYear + NumYears - 1
FirstYear == 2023
NumYears == 3
\* what is out of the ordinary in a batch happens at its start: a malformed
\* or repeated record is among the first Window records of a FETCH answer,
\* and a year boundary falls no later than after the first Window comparisons
Window == 1
\* the largest number of entries a LIST answer carries
MaxListed == 2
\* SpecApi: number of concurrent callers and of create_folder calls
NThreads == 2
MaxCalls == 2

Years == FirstYear .. (FirstYear + NumYears - 1)
StartYear == FirstYear + 1
Main == 0
Threads == 0 .. NThreads
Callers == 1 .. NThreads
Free == 0 - 1

\* the sizes of the search result: next to nothing, or a batch give or take
\* one identifier, or more
SearchSizes == { n \in 0 .. MaxSearch : n <= 1 \/ n >= MAX_UIDS - 1 }

VARIABLES
    uids,      \* main: the search result, in iteration order
    dates,     \* server: the internal-date years of the even and odd UIDs
    idx,       \* main: how many identifiers the for loop has consumed
    batch,     \* main: the batch being filled / being processed
    tail,      \* main: TRUE when process_messages was called at line 147
    pc,        \* main: where the run is
    messages,  \* process_messages: the fetched records
    mi,        \* process_messages: records classified so far
    years,     \* process_messages: HashMap<Year, Vec<Uid>>
    todo,      \* process_messages: keys of years not yet iterated
    cur,       \* process_messages: the key of the current iteration
    now,       \* environment: the year the clock reports
    ticked,    \* environment: the clock has crossed a year boundary
    reads,     \* history: per classified record, the year the clock gave
    cached,    \* EXISTING_YEARS: the Vec behind the Mutex
    lock,      \* EXISTING_YEARS: the thread holding the Mutex, or Free
    poisoned,  \* EXISTING_YEARS: a holder of the Mutex has panicked
    folders,   \* server: archive folders (years) known to exist
    cf,        \* create_folder: per thread, its position, year and result
    calls,     \* history: number of create_folder calls begun, per year
    handed,    \* history: the batches handed to process_messages
    log,       \* history: the requests the server has seen, with answers
    fail       \* main: why the run was aborted ("" while it has not)

mainVars == <<uids, dates, idx, batch, tail, pc, messages, mi, years, todo,
              cur, now, ticked, reads, handed, fail>>
cfVars == <<cached, lock, poisoned, folders, cf, calls, log>>
vars == <<mainVars, cfVars>>

(***************************************************************************)
(* Pure functions.                                                         *)
(***************************************************************************)
\* fn create_uidset: the decimal identifiers joined by ','.  The fold is
\* evaluated as a balanced tree (string concatenation is associative), which
\* gives the same string and keeps the evaluation depth logarithmic:
\* join[lo, hi] is the string for the elements lo .. hi of s.
create_uidset(s) ==
    LET join[lo \in 1 .. Len(s) + 1, hi \in 0 .. Len(s)] ==
          IF hi < lo THEN ""
          ELSE IF lo = hi THEN ToString(s[lo])
          ELSE LET h == (lo + hi) \div 2
               IN  join[lo, h] \o "," \o join[h + 1, hi]
    IN  join[1, Len(s)]

\* fn year_to_folder
year_to_folder(year) == "Archives/" \o ToString(year)

\* Option<T>: None is <<>>, Some(v) is <<v>>
None == <<>>
Some(v) == <<v>>
IsSome(o) == o # <<>>
Unwrap(o) == o[1]

\* internal_date().format("%Y").to_string().parse::<Year>(): a year before
\* year 0 formats with a minus sign, which u32 does not parse
ParseOk(y) == y >= 0
ParseYear(y) == y

\* (bug variant: the comparison is off by one)
BatchFullLate(b) == Len(b) > MAX_UIDS
\* if batch.len() == MAX_UIDS
BatchFull(b) == Len(b) = MAX_UIDS

\* (bug variant: the batch is not replaced after it was processed)
FreshBatchKept(b) == b
\* batch = Vec::new() after the call at line 142
FreshBatch(b) == <<>>

\* if !batch.is_empty()
TailPending(b) == b # <<>>

\* if year == chrono::Utc::now().year().try_into()?  (the clock's year is
\* positive, the conversion to u32 does not fail)
IsCurrentYear(year, clock) == year = clock

\* (bug variant: the entry of the year is overwritten, not extended)
YearsPushReset(m, year, uid) ==
    [y \in (DOMAIN m) \cup {year} |-> IF y = year THEN <<uid>> ELSE m[y]]
\* years.entry(year).or_insert(Vec::new()); years.get_mut(&year).push(uid)
YearsPush(m, year, uid) ==
    [y \in (DOMAIN m) \cup {year} |->
        IF y = year
        THEN Append(IF y \in DOMAIN m THEN m[y] ELSE <<>>, uid)
        ELSE m[y]]

\* cached.contains(year)
Contains(c, year) == \E i \in 1 .. Len(c) : c[i] = year

\* (bug variant: the cache is not consulted)
CacheMiss(c, year) == FALSE
\* if cached.contains(year) { return Ok(()); }
CacheHit(c, year) == Contains(c, year)

\* (bug variant: the cache is overwritten with the new year)
CachePushReplace(c, year) == <<year>>
\* cached.push(*year)
CachePush(c, year) == Append(c, year)

\* (bug variant: the assertion is left out)
ListAssertOff(n) == TRUE
\* assert!(folders.len() < 2)
ListAssert(n) == n < 2

\* (bug variant: the emptiness test is left out)
ListFoundAlways(n) == TRUE
\* if !folders.is_empty()
ListFound(n) == n # 0

\* (bug variant: the year is not recorded after the folder was created)
AfterCreateForget(c, year, created) == c
\* (bug variant: the year is recorded before the answer to CREATE is known)
AfterCreateAlways(c, year, created) == Append(c, year)
\* session.create(folder_name)?; cached.push(*year);
AfterCreate(c, year, created) == IF created THEN Append(c, year) ELSE c

\* (bug variant: the whole batch is moved, not the entry of the year)
ArchiveArgBatch(m, year, b) == b
\* archive_messages(*year, &years[year], session)
ArchiveArg(m, year, b) == m[year]

\* the internal-date year the server holds for a message
DateOf(uid) == dates[uid % 2]

(***************************************************************************)
(* The log of requests.                                                    *)
(***************************************************************************)
Req(op, folder, ids, resp, count) ==
    [op |-> op, folder |-> folder, uids |-> ids,
     uidset |-> create_uidset(ids), resp |-> resp, count |-> count]

IdleCf == [pc |-> "idle", year |-> FirstYear, res |-> ""]

(***************************************************************************)
(* Initial states.                                                         *)
(***************************************************************************)
\* let uids = session.uid_search("ALL")?  (a HashSet: distinct identifiers)
Init ==
    /\ \E n \in SearchSizes : uids = [i \in 1 .. n |-> i]
    /\ dates \in [0 .. 1 -> Years]
    /\ idx = 0
    /\ batch = <<>>
    /\ tail = FALSE
    /\ pc = "loop"
    /\ messages = <<>>
    /\ mi = 0
    /\ years = <<>>
    /\ todo = {}
    /\ cur = FirstYear
    /\ now = StartYear
    /\ ticked = FALSE
    /\ reads = <<>>
    /\ cached = <<>>
    /\ lock = Free
    /\ poisoned = FALSE
    /\ folders = {}
    /\ cf = [t \in Threads |-> IdleCf]
    /\ calls = [y \in Years |-> 0]
    /\ handed = <<>>
    /\ log = <<>>
    /\ fail = ""

(***************************************************************************)
(* main, lines 138-150.                                                    *)
(***************************************************************************)
\* for uid in uids.iter() { batch.push(*uid); if full { process_messages } }
MainPush ==
    /\ pc = "loop"
    /\ idx < Len(uids)
    /\ idx' = idx + 1
    /\ LET b == Append(batch, uids[idx + 1])
       IN  /\ batch' = b
           /\ IF BatchFull(b)
              THEN /\ pc' = "fetch"
                   /\ handed' = Append(handed, b)
              ELSE UNCHANGED <<pc, handed>>
    /\ tail' = FALSE
    /\ UNCHANGED <<uids, dates, messages, mi, years, todo, cur, now, ticked,
                   reads, fail>>
    /\ UNCHANGED cfVars

\* if !batch.is_empty() { process_messages(batch, ..)?; }  Ok(())
MainTail ==
    /\ pc = "loop"
    /\ idx = Len(uids)
    /\ IF TailPending(batch)
       THEN /\ pc' = "fetch"
            /\ tail' = TRUE
            /\ handed' = Append(handed, batch)
       ELSE /\ pc' = "done"
            /\ UNCHANGED <<tail, handed>>
    /\ UNCHANGED <<uids, dates, idx, batch, messages, mi, years, todo, cur,
                   now, ticked, reads, fail>>
    /\ UNCHANGED cfVars

(***************************************************************************)
(* process_messages, lines 84-115.                                         *)
(***************************************************************************)
\* the records the server returns for the batch: one per identifier;
\* possibly one of the first Window records is malformed (no date, no
\* identifier, a year before year 0) or is sent a second time
Fetched(b, kind, p) ==
    LET recs == [i \in 1 .. Len(b) |->
          IF i = p /\ kind = "nodate"
          THEN [uid |-> Some(b[i]), date |-> None]
          ELSE IF i = p /\ kind = "nouid"
          THEN [uid |-> None, date |-> Some(DateOf(b[i]))]
          ELSE IF i = p /\ kind = "negyear"
          THEN [uid |-> Some(b[i]), date |-> Some(0 - 1)]
          ELSE [uid |-> Some(b[i]), date |-> Some(DateOf(b[i]))]]
    IN  IF kind = "dup" THEN Append(recs, recs[p]) ELSE recs

\* let messages = session.uid_fetch(uidset, "(UID INTERNALDATE)")?;
Fetch ==
    /\ pc = "fetch"
    /\ \/ /\ log' = Append(log, Req("FETCH", "", batch, "err", 0))
          /\ pc' = "aborted"
          /\ fail' = "FetchError"
          /\ UNCHANGED <<messages, mi, years, reads>>
       \/ \E kind \in {"none", "nodate", "nouid", "negyear", "dup"},
             p \in 1 .. Window :
             /\ IF kind = "none" THEN p = 1 ELSE p <= Len(batch)
             /\ log' = Append(log, Req("FETCH", "", batch, "ok", Len(batch)))
             /\ messages' = Fetched(batch, kind, p)
             /\ mi' = 0
             /\ years' = <<>>
             /\ reads' = <<>>
             /\ pc' = "classify"
             /\ fail' = fail
    /\ UNCHANGED <<uids, dates, idx, batch, tail, todo, cur, now, ticked,
                   handed>>
    /\ UNCHANGED <<cached, lock, poisoned, folders, cf, calls>>

\* the clock crosses a year boundary while a batch is being classified
Tick ==
    /\ pc = "classify"
    /\ ~ticked
    /\ mi <= Window
    /\ now' = now + 1
    /\ ticked' = TRUE
    /\ UNCHANGED <<uids, dates, idx, batch, tail, pc, messages, mi, years,
                   todo, cur, reads, handed, fail>>
    /\ UNCHANGED cfVars

\* one iteration of  for message in messages.iter()  (lines 90-107), or the
\* end of the loop
Classify ==
    /\ pc = "classify"
    /\ IF mi = Len(messages)
       THEN /\ pc' = "years"
            /\ todo' = DOMAIN years
            /\ UNCHANGED <<mi, years, reads, fail>>
       ELSE LET m == messages[mi + 1]
            IN  /\ todo' = todo
                /\ IF ~IsSome(m.date)
                   THEN /\ pc' = "aborted"
                        /\ fail' = "panic: Message has no date"
                        /\ UNCHANGED <<mi, years, reads>>
                   ELSE IF ~ParseOk(Unwrap(m.date))
                   THEN /\ pc' = "aborted"
                        /\ fail' = "ParseIntError"
                        /\ UNCHANGED <<mi, years, reads>>
                   ELSE LET year == ParseYear(Unwrap(m.date))
                        IN  IF IsCurrentYear(year, now)
                            THEN /\ mi' = mi + 1
                                 /\ reads' = Append(reads, now)
                                 /\ UNCHANGED <<pc, years, fail>>
                            ELSE IF ~IsSome(m.uid)
                            THEN /\ pc' = "aborted"
                                 /\ fail' = "panic: Message has no UID"
                                 /\ UNCHANGED <<mi, years, reads>>
                            ELSE /\ years' = YearsPush(years, year,
                                                       Unwrap(m.uid))
                                 /\ mi' = mi + 1
                                 /\ reads' = Append(reads, now)
                                 /\ UNCHANGED <<pc, fail>>
    /\ UNCHANGED <<uids, dates, idx, batch, tail, messages, cur, now, ticked,
                   handed>>
    /\ UNCHANGED cfVars

\* The iterator years.keys() of line 109 yields every key once: after y the
\* keys still to visit are the others.
RestOfKeysNone(S, y) == {}

RestOfKeys(S, y) == S \ {y}

\* for year in years.keys() { create_folder(year, session)?; ...  (line 110)
\* and, the keys exhausted, Ok(()) back to main (lines 143 and 150), the
\* locals of process_messages dropped
ForYear ==
    /\ pc = "years"
    /\ IF todo = {}
       THEN /\ pc' = IF tail THEN "done" ELSE "loop"
            /\ batch' = IF tail THEN batch ELSE FreshBatch(batch)
            /\ messages' = <<>>
            /\ mi' = 0
            /\ years' = <<>>
            /\ reads' = <<>>
            /\ UNCHANGED <<todo, cur, cf, calls>>
       ELSE \E y \in todo :
              /\ todo' = RestOfKeys(todo, y)
              /\ cur' = y
              /\ cf' = [cf EXCEPT ![Main] =
                            [pc |-> "lock", year |-> y, res |-> ""]]
              /\ calls' = [calls EXCEPT ![y] = @ + 1]
              /\ pc' = "create_folder"
              /\ UNCHANGED <<batch, messages, mi, years, reads>>
    /\ UNCHANGED <<uids, dates, idx, tail, now, ticked, handed, fail>>
    /\ UNCHANGED <<cached, lock, poisoned, folders, log>>

(***************************************************************************)
(* create_folder, lines 46-67, run by thread t for cf[t].year.             *)
(***************************************************************************)
\* The MutexGuard `cached` of line 47 lives until create_folder returns: the
\* thread that took the lock holds it across the LIST and the CREATE.
HoldLockDropped(t) == Free

HoldLock(t) == t

\* The guard is dropped when create_folder returns or unwinds (lines 50, 53,
\* 55, 60, 63, 66): the lock is free again.
UnlockForgotten(l) == l

Unlock(l) == Free

Return(t, res) == [cf EXCEPT ![t] = [pc |-> "ret", year |-> @.year,
                                      res |-> res]]

\* let mut cached = EXISTING_YEARS.lock().unwrap();
\* if cached.contains(year) { return Ok(()); }
CfLock(t) ==
    /\ cf[t].pc = "lock"
    /\ lock = Free
    /\ IF poisoned
       THEN /\ cf' = Return(t, "panic: PoisonError")
            /\ lock' = Unlock(t)
       ELSE IF CacheHit(cached, cf[t].year)
       THEN /\ cf' = Return(t, "ok")
            /\ lock' = Unlock(t)
       ELSE /\ cf' = [cf EXCEPT ![t].pc = "list"]
            /\ lock' = HoldLock(t)
    /\ UNCHANGED <<cached, poisoned, folders, calls, log>>
    /\ UNCHANGED mainVars

\* let folders = session.list(None, Some(&folder_name))?;
\* The server answers with an error or with n entries.  Which folders
\* existed before the run is learnt from the first LIST for the name: an
\* answer with an entry puts the year into folders, a folder known to exist
\* is never reported absent.
\* assert!(folders.len() < 2);
\* if !folders.is_empty() { cached.push(*year); return Ok(()); }
CfList(t) ==
    /\ cf[t].pc = "list"
    /\ LET year == cf[t].year
           folder_name == year_to_folder(year)
       IN  \/ /\ log' = Append(log, Req("LIST", folder_name, <<>>, "err", 0))
              /\ cf' = Return(t, "ListError")
              /\ lock' = Unlock(lock)
              /\ UNCHANGED <<cached, poisoned, folders>>
           \/ \E n \in 0 .. MaxListed :
                /\ year \in folders => n >= 1
                /\ log' = Append(log, Req("LIST", folder_name, <<>>, "ok", n))
                /\ folders' = IF n >= 1 THEN folders \cup {year} ELSE folders
                /\ IF ~ListAssert(n)
                   THEN /\ cf' = Return(t, "panic: assertion failed")
                        /\ poisoned' = TRUE
                        /\ lock' = Unlock(lock)
                        /\ cached' = cached
                   ELSE IF ListFound(n)
                   THEN /\ cached' = CachePush(cached, year)
                        /\ cf' = Return(t, "ok")
                        /\ lock' = Unlock(lock)
                        /\ poisoned' = poisoned
                   ELSE /\ cf' = [cf EXCEPT ![t].pc = "create"]
                        /\ UNCHANGED <<cached, lock, poisoned>>
    /\ calls' = calls
    /\ UNCHANGED mainVars

\* session.create(folder_name)?; cached.push(*year); Ok(())
\* The server creates the folder, or refuses (it always refuses a name that
\* exists).
CfCreate(t) ==
    /\ cf[t].pc = "create"
    /\ LET year == cf[t].year
           folder_name == year_to_folder(year)
       IN  \E created \in BOOLEAN :
             /\ created => year \notin folders
             /\ log' = Append(log, Req("CREATE", folder_name, <<>>,
                                       IF created THEN "ok" ELSE "err", 0))
             /\ folders' = IF created THEN folders \cup {year} ELSE folders
             /\ cached' = AfterCreate(cached, year, created)
             /\ cf' = Return(t, IF created THEN "ok" ELSE "CreateError")
             /\ lock' = Unlock(lock)
    /\ UNCHANGED <<poisoned, calls>>
    /\ UNCHANGED mainVars

(***************************************************************************)
(* process_messages, lines 110-111, and archive_messages, lines 69-79.     *)
(***************************************************************************)
\* The `?` of line 110: process_messages goes on to archive_messages only
\* when create_folder returned Ok.
IsOkAlways(res) == TRUE

IsOk(res) == res = "ok"

\* The `?` of lines 78 and 111: the loop over the years goes on only when
\* the MOVE was answered without an error.
TryIgnored(ok) == TRUE

Try(ok) == ok

\* create_folder(year, session)?
CreateFolderReturned ==
    /\ pc = "create_folder"
    /\ cf[Main].pc = "ret"
    /\ IF IsOk(cf[Main].res)
       THEN /\ pc' = "archive"
            /\ fail' = fail
       ELSE /\ pc' = "aborted"
            /\ fail' = cf[Main].res
    /\ cf' = [cf EXCEPT ![Main] = IdleCf]
    /\ UNCHANGED <<uids, dates, idx, batch, tail, messages, mi, years, todo,
                   cur, now, ticked, reads, handed>>
    /\ UNCHANGED <<cached, lock, poisoned, folders, calls, log>>

\* archive_messages(*year, &years[year], session)?
Archive ==
    /\ pc = "archive"
    /\ \E moved \in BOOLEAN :
         /\ log' = Append(log, Req("MOVE", year_to_folder(cur),
                                   ArchiveArg(years, cur, batch),
                                   IF moved THEN "ok" ELSE "err", 0))
         /\ pc' = IF Try(moved) THEN "years" ELSE "aborted"
         /\ fail' = IF Try(moved) THEN fail ELSE "MoveError"
    /\ UNCHANGED <<uids, dates, idx, batch, tail, messages, mi, years, todo,
                   cur, now, ticked, reads, handed>>
    /\ UNCHANGED <<cached, lock, poisoned, folders, cf, calls>>

Next ==
    \/ MainPush
    \/ MainTail
    \/ Fetch
    \/ Tick
    \/ Classify
    \/ ForYear
    \/ CfLock(Main)
    \/ CfList(Main)
    \/ CfCreate(Main)
    \/ CreateFolderReturned
    \/ Archive

Spec == Init /\ [][Next]_vars

(***************************************************************************)
(* SpecApi: callers of create_folder.                                      *)
(***************************************************************************)
RECURSIVE SumCalls(_)
SumCalls(S) == IF S = {} THEN 0
               ELSE LET y == CHOOSE z \in S : TRUE
                    IN  calls[y] + SumCalls(S \ {y})

InitApi ==
    /\ uids = <<>>
    /\ dates = [i \in 0 .. 1 |-> FirstYear]
    /\ idx = 0
    /\ batch = <<>>
    /\ tail = FALSE
    /\ pc = "api"
    /\ messages = <<>>
    /\ mi = 0
    /\ years = <<>>
    /\ todo = {}
    /\ cur = FirstYear
    /\ now = StartYear
    /\ ticked = FALSE
    /\ reads = <<>>
    /\ cached = <<>>
    /\ lock = Free
    /\ poisoned = FALSE
    /\ folders = {}
    /\ cf = [t \in Threads |-> IdleCf]
    /\ calls = [y \in Years |-> 0]
    /\ handed = <<>>
    /\ log = <<>>
    /\ fail = ""

\* a caller enters create_folder(&year, session)
ApiCall(t, year) ==
    /\ pc = "api"
    /\ cf[t].pc = "idle"
    /\ SumCalls(Years) < MaxCalls
    /\ cf' = [cf EXCEPT ![t] = [pc |-> "lock", year |-> year, res |-> ""]]
    /\ calls' = [calls EXCEPT ![year] = @ + 1]
    /\ UNCHANGED <<cached, lock, poisoned, folders, log>>
    /\ UNCHANGED mainVars

\* the caller has its Result (or its panic) and may call again
ApiReturn(t) ==
    /\ pc = "api"
    /\ cf[t].pc = "ret"
    /\ cf' = [cf EXCEPT ![t] = IdleCf]
    /\ UNCHANGED <<cached, lock, poisoned, folders, calls, log>>
    /\ UNCHANGED mainVars

NextApi ==
    \E t \in Callers :
        \/ \E year \in Years : ApiCall(t, year)
        \/ CfLock(t)
        \/ CfList(t)
        \/ CfCreate(t)
        \/ ApiReturn(t)

SpecApi == InitApi /\ [][NextApi]_vars

(***************************************************************************)
(* Vocabulary of the properties.                                           *)
(***************************************************************************)
Last(s) == s[Len(s)]
Range(s) == {s[i] : i \in DOMAIN s}

\* the requests of one kind the server has seen for the folder of a year
Entries(op, y) ==
    {j \in DOMAIN log : log[j].op = op /\ log[j].folder = year_to_folder(y)}
ListCount(y) == Cardinality(Entries("LIST", y))
CreateCount(y) == Cardinality(Entries("CREATE", y))
Moves == SelectSeq(log, LAMBDA e : e.op = "MOVE")

\* the number of batches the loop should hand over for n identifiers
CeilBatches(n) == (n + MAX_UIDS - 1) \div MAX_UIDS

\* process_messages has built its YearGroup and is iterating over it
Grouped == pc \in {"years", "create_folder", "archive"}

\* the derived year of a fetched record
DerivedYear(i) == ParseYear(Unwrap(messages[i].date))
\* the records the classifier skipped: derived year = the year the clock
\* reported when the record was compared
Skipped == {i \in DOMAIN messages : DerivedYear(i) = reads[i]}
\* the records that belong in the YearGroup entry of year y
Belong(y) == {i \in DOMAIN messages : DerivedYear(i) = y /\ reads[i] # y}

(***************************************************************************)
(* C1  The batching loop hands process_messages batches of exactly         *)
(* MAX_UIDS identifiers, except possibly the last one, which holds the     *)
(* remainder N mod MAX_UIDS; no batch is empty, and a run that completes   *)
(* has handed over exactly ceil(N / MAX_UIDS) batches.                     *)
(***************************************************************************)
C1_BatchSizes ==
    LET n == Len(uids)
    IN  /\ \A k \in DOMAIN handed :
             /\ Len(handed[k]) >= 1
             /\ (k - 1) * MAX_UIDS < n
             /\ Len(handed[k]) = IF k * MAX_UIDS <= n THEN MAX_UIDS
                                 ELSE n % MAX_UIDS
        /\ Len(handed) <= CeilBatches(n)
        /\ pc = "done" => Len(handed) = CeilBatches(n)

C1_Witness ==
    /\ pc = "done"
    /\ Len(handed) = 2
    /\ Len(handed[1]) = MAX_UIDS
    /\ Len(handed[2]) = 1

(***************************************************************************)
(* C2  Every identifier is archived at most once in a run: no identifier   *)
(* is in two of the batches handed over or twice in one of them (and each  *)
(* identifier of the search result is in a batch when the run completes),  *)
(* no identifier is under two keys of a YearGroup, and no identifier is    *)
(* named by two MOVE requests.                                             *)
(***************************************************************************)
C2_ArchivedAtMostOnce ==
    /\ \A k \in DOMAIN handed :
         /\ Cardinality(Range(handed[k])) = Len(handed[k])
         /\ Range(handed[k]) \subseteq Range(uids)
         /\ \A l \in DOMAIN handed :
              l # k => Range(handed[k]) \cap Range(handed[l]) = {}
    /\ pc = "done" =>
         UNION {Range(handed[k]) : k \in DOMAIN handed} = Range(uids)
    /\ Grouped =>
         \A y, z \in DOMAIN years :
            y # z => Range(years[y]) \cap Range(years[z]) = {}
    /\ \A j, k \in DOMAIN Moves :
         j # k => Range(Moves[j].uids) \cap Range(Moves[k].uids) = {}

C2_Witness ==
    /\ pc = "done"
    /\ Len(handed) = 2
    /\ Len(Moves) >= 3
    /\ \A j \in DOMAIN Moves : Moves[j].resp = "ok"

(***************************************************************************)
(* C3  Once a batch is classified, the YearGroup holds no record whose     *)
(* derived year equalled the current year, and every other fetched record  *)
(* sits in exactly one entry, the one keyed by its derived year, exactly   *)
(* once.  The current year of a record is the year the clock reported when *)
(* the record was compared; in a run whose clock has not crossed a year    *)
(* boundary that is the one current year, and then no identifier of a      *)
(* current-year message is anywhere in the YearGroup.                      *)
(***************************************************************************)
C3_YearGroup ==
    Grouped =>
      /\ Len(reads) = Len(messages)
      /\ DOMAIN years \subseteq {DerivedYear(i) : i \in DOMAIN messages}
      /\ \A y \in {DerivedYear(i) : i \in DOMAIN messages} :
           IF Belong(y) = {}
           THEN y \notin DOMAIN years
           ELSE /\ y \in DOMAIN years
                /\ Len(years[y]) = Cardinality(Belong(y))
                /\ Range(years[y])
                     = {Unwrap(messages[i].uid) : i \in Belong(y)}
      /\ ~ticked =>
           /\ now \notin DOMAIN years
           /\ \A i \in DOMAIN messages :
                (DerivedYear(i) = now /\ IsSome(messages[i].uid)) =>
                   \A y \in DOMAIN years :
                      Unwrap(messages[i].uid) \notin Range(years[y])

C3_Witness ==
    /\ pc = "years"
    /\ ~ticked
    /\ Len(messages) = MAX_UIDS
    /\ \E i \in DOMAIN messages : DerivedYear(i) = now
    /\ \E y \in DOMAIN years : Len(years[y]) >= 2

(***************************************************************************)
(* C4  No MOVE request names a message whose internal-date year equals the *)
(* current year.  In a run whose clock has not crossed a year boundary no  *)
(* MOVE request of the log names an identifier dated in the current year;  *)
(* in every run, a MOVE request names exactly the identifiers of the       *)
(* records of its batch that were not current-year when compared (checked  *)
(* right after the request, the records of its batch still at hand).       *)
(***************************************************************************)
C4_NoCurrentYearMoved ==
    (pc \in {"years", "aborted", "done"} /\ log # <<>>) =>
      /\ ~ticked =>
           \A j \in DOMAIN Moves :
              /\ Moves[j].folder # year_to_folder(now)
              /\ \A u \in Range(Moves[j].uids) : DateOf(u) # now
      /\ (Last(log).op = "MOVE" /\ pc # "done") =>
           /\ Last(log).folder = year_to_folder(cur)
           /\ Range(Last(log).uids)
                = {Unwrap(messages[i].uid) : i \in Belong(cur)}
           /\ Len(Last(log).uids) = Cardinality(Belong(cur))

C4_Witness ==
    /\ pc = "years"
    /\ ~ticked
    /\ log # <<>>
    /\ Last(log).op = "MOVE"
    /\ Len(Last(log).uids) >= 2
    /\ \E i \in DOMAIN messages : DerivedYear(i) = now

(***************************************************************************)
(* C5  create_folder called a second time for a year in one run is a       *)
(* cache hit: by then the server has seen exactly one LIST and at most one *)
(* CREATE for the year, the year is cached, and the second call returns    *)
(* Ok without a further request.                                           *)
(***************************************************************************)
C5_SecondCallCacheHit ==
    \A y \in Years :
       calls[y] >= 2 =>
         /\ ListCount(y) = 1
         /\ CreateCount(y) <= 1
         /\ Contains(cached, y)
         /\ (pc = "create_folder" /\ cf[Main].year = y) =>
              /\ cf[Main].pc \in {"lock", "ret"}
              /\ cf[Main].pc = "ret" => cf[Main].res = "ok"

C5_Witness ==
    \E y \in Years :
       /\ calls[y] = 2
       /\ pc = "create_folder"
       /\ cf[Main].year = y
       /\ cf[Main].pc = "ret"
       /\ CreateCount(y) = 1

(***************************************************************************)
(* C6  As claimed: for any sequence of create_folder calls, failed and     *)
(* re-attempted calls included, the server sees at most one LIST and at    *)
(* most one CREATE per year.                                               *)
(***************************************************************************)
C6_AtMostOneListAndCreate ==
    \A y \in Years : ListCount(y) <= 1 /\ CreateCount(y) <= 1

\* a request whose answer makes create_folder record the year
Settles(e) ==
    /\ e.resp = "ok"
    /\ \/ e.op = "CREATE"
       \/ e.op = "LIST" /\ e.count >= 1

(***************************************************************************)
(* C6, amended  For any sequence of create_folder calls, the server sees   *)
(* no LIST and no CREATE for a year once a LIST for it has found the       *)
(* folder or a CREATE for it has succeeded: hence at most one LIST that    *)
(* finds the folder and at most one successful CREATE per year.  A call    *)
(* that fails leaves the year uncached and a re-attempt sends LIST (and    *)
(* CREATE) again.                                                          *)
(***************************************************************************)
C6_NoRequestOnceSettled ==
    /\ \A j, k \in DOMAIN log :
          (/\ j < k
           /\ log[j].op \in {"LIST", "CREATE"}
           /\ log[k].op \in {"LIST", "CREATE"}
           /\ log[j].folder = log[k].folder)
          => ~Settles(log[j])
    /\ \A y \in Years :
          /\ Cardinality({j \in Entries("CREATE", y) : Settles(log[j])}) <= 1
          /\ Cardinality({j \in Entries("LIST", y) : Settles(log[j])}) <= 1
          /\ Contains(cached, y) =>
               \E j \in DOMAIN log :
                  /\ log[j].folder = year_to_folder(y)
                  /\ Settles(log[j])

C6_Witness ==
    \E y \in Years :
       /\ ListCount(y) >= 2
       /\ CreateCount(y) >= 2
       /\ Contains(cached, y)

(***************************************************************************)
(* C7  Cache soundness: whenever a step adds a year to EXISTING_YEARS, the *)
(* step is the answer to a LIST for Archives/<year> that returned exactly  *)
(* one entry or to a CREATE for that name that succeeded, and the folder   *)
(* exists on the server.                                                   *)
(***************************************************************************)
C7_CacheSound ==
    [][\A y \in Years :
         (Contains(cached', y) /\ ~Contains(cached, y)) =>
            /\ y \in folders'
            /\ Len(log') = Len(log) + 1
            /\ Last(log').folder = year_to_folder(y)
            /\ Last(log').resp = "ok"
            /\ \/ Last(log').op = "LIST" /\ Last(log').count = 1
               \/ Last(log').op = "CREATE"]_vars

C7_Witness ==
    \E y, z \in Years :
       /\ Contains(cached, y)
       /\ Contains(cached, z)
       /\ CreateCount(y) = 1
       /\ CreateCount(z) = 0

(***************************************************************************)
(* C8  The cache only grows: over every step of a run the years cached     *)
(* after the step include the years cached before it.                      *)
(***************************************************************************)
C8_CacheMonotone ==
    [][/\ Range(cached) \subseteq Range(cached')
       /\ Len(cached) <= Len(cached')]_vars

C8_Witness ==
    /\ pc = "aborted"
    /\ fail = "CreateError"
    /\ Len(cached) >= 1

(***************************************************************************)
(* C9  A LIST answer with more than one entry is fatal: create_folder      *)
(* panics on its assertion, the run is aborted, no request (so no CREATE)  *)
(* follows the LIST, and the year is not cached.                           *)
(***************************************************************************)
C9_ListAmbiguous ==
    \A j \in DOMAIN log :
       (log[j].op = "LIST" /\ log[j].resp = "ok" /\ log[j].count > 1) =>
          /\ j = Len(log)
          /\ log[j].folder = year_to_folder(cur)
          /\ ~Contains(cached, cur)
          /\ CreateCount(cur) = 0
          /\ \/ /\ pc = "create_folder"
                /\ cf[Main].pc = "ret"
                /\ cf[Main].res = "panic: assertion failed"
             \/ /\ pc = "aborted"
                /\ fail = "panic: assertion failed"

C9_Witness ==
    /\ pc = "aborted"
    /\ fail = "panic: assertion failed"
    /\ Last(log).op = "LIST"
    /\ Last(log).count = 2
    /\ Len(cached) >= 1

\* the last request the server has seen for the folder of year y is a
\* CREATE that failed
CreateFailedLast(y) ==
    \E j \in Entries("CREATE", y) :
       /\ log[j].resp = "err"
       /\ \A k \in DOMAIN log :
             (k > j) => log[k].folder # year_to_folder(y)

(***************************************************************************)
(* C10  When LIST finds nothing and CREATE fails, create_folder returns    *)
(* the error and leaves the cache as it was, the year not in it; and the   *)
(* next call for that year is no cache hit: it goes on to LIST again (and  *)
(* to CREATE when LIST finds nothing).                                     *)
(***************************************************************************)
C10_CreateFailure ==
    [][\A t \in Threads :
         /\ (/\ cf[t].pc = "create"
             /\ cf'[t].pc = "ret"
             /\ Last(log').resp = "err")
            => /\ cf'[t].res = "CreateError"
               /\ cached' = cached
               /\ ~Contains(cached', cf[t].year)
               /\ lock' = Free
         /\ (/\ cf[t].pc = "lock"
             /\ cf'[t].pc # "lock"
             /\ ~poisoned
             /\ CreateFailedLast(cf[t].year))
            => /\ cf'[t].pc = "list"
               /\ lock' = t]_vars

C10_Witness ==
    \E y \in Years :
       \E i, j, k \in DOMAIN log :
          /\ i < j
          /\ j < k
          /\ log[i].folder = year_to_folder(y)
          /\ log[i].op = "CREATE"
          /\ log[i].resp = "err"
          /\ log[j].folder = year_to_folder(y)
          /\ log[j].op = "LIST"
          /\ log[k].folder = year_to_folder(y)
          /\ log[k].op = "CREATE"

\* the number of MOVE requests the server has seen for the folder of a year
MoveCount(y) == Cardinality(Entries("MOVE", y))

(***************************************************************************)
(* C11  For each year of the YearGroup, create_folder for that year is     *)
(* called and returns Ok before the MOVE for that year is sent, and the    *)
(* years are handled as ensure/archive pairs, one after another: a year    *)
(* has had as many MOVEs as create_folder calls, but for the one year      *)
(* whose pair is under way (or whose create_folder ended the run), which   *)
(* has had one more call; and when the MOVE is about to be sent the call   *)
(* for its year has returned, the last answer of the server was no error   *)
(* and the year is in the cache.                                           *)
(***************************************************************************)
C11_EnsureThenArchive ==
    /\ \A y \in Years :
          /\ MoveCount(y) <= calls[y]
          /\ calls[y] <= MoveCount(y) + 1
          /\ (calls[y] = MoveCount(y) + 1)
             => /\ cur = y
                /\ \/ pc \in {"create_folder", "archive"}
                   \/ pc = "aborted" /\ fail # "MoveError"
    /\ (pc = "archive")
       => /\ cf[Main] = IdleCf
          /\ lock = Free
          /\ cur \in DOMAIN years
          /\ Contains(cached, cur)
          /\ log # <<>>
          /\ Last(log).resp = "ok"
          /\ (Last(log).op = "LIST")
             => /\ Last(log).count = 1
                /\ Last(log).folder = year_to_folder(cur)
          /\ (Last(log).op = "CREATE")
             => Last(log).folder = year_to_folder(cur)

\* two pairs in one batch: the MOVE of the first year has been sent, the
\* folder of the second has just been created and its MOVE is next
C11_Witness ==
    /\ pc = "archive"
    /\ Len(handed) = 1
    /\ Last(log).op = "CREATE"
    /\ \E y \in DOMAIN years : y # cur /\ MoveCount(y) = 1

\* a request the server answered with an error, or a LIST answered with more
\* than one entry (the assertion of line 55 fails on it)
Failed(e) ==
    \/ e.resp = "err"
    \/ e.op = "LIST" /\ e.count >= 2

(***************************************************************************)
(* C12  Fail-fast.  Once an operation has failed (a FETCH error, a         *)
(* malformed record, a LIST error or an ambiguous LIST answer, a CREATE    *)
(* error, a MOVE error) the run aborts and the server sees no further      *)
(* request: a failed request is the last request of the run, the run is    *)
(* aborted with the error (or create_folder is just handing it to its      *)
(* caller), and an aborted run stays aborted and sends nothing.            *)
(***************************************************************************)
C12_FailFast ==
    /\ [](/\ \A j \in DOMAIN log :
                Failed(log[j])
                => /\ j = Len(log)
                   /\ \/ pc = "aborted"
                      \/ /\ pc = "create_folder"
                         /\ cf[Main].pc = "ret"
                         /\ cf[Main].res # "ok"
          /\ (fail # "") <=> (pc = "aborted"))
    /\ [][(pc = "aborted") => (pc' = "aborted" /\ log' = log)]_vars

\* a MOVE failed when another year of the batch and another batch were
\* still to be handled
C12_Witness ==
    /\ pc = "aborted"
    /\ fail = "MoveError"
    /\ Last(log).op = "MOVE"
    /\ todo # {}
    /\ ~tail
    /\ idx <= Len(uids)

(***************************************************************************)
(* C13, as stated  With callers of create_folder running concurrently, the *)
(* server never sees two CREATE requests for the same year, and never a    *)
(* CREATE for a folder that exists.                                        *)
(***************************************************************************)
C13_NoTwoCreates ==
    /\ \A y \in Years : CreateCount(y) <= 1
    /\ \A t \in Threads :
          (cf[t].pc = "create") => cf[t].year \notin folders

(***************************************************************************)
(* C13, amended  With callers of create_folder running concurrently, the   *)
(* cache check, the LIST and the CREATE of a call are one critical section *)
(* under the cache lock: a thread between its cache check and its return   *)
(* holds the lock, so no two threads are there at once; a CREATE is only   *)
(* sent for a year that is not cached and whose folder does not exist; and *)
(* the server sees a second CREATE for a year only after it refused the    *)
(* earlier one, so at most one CREATE per year succeeds.                   *)
(***************************************************************************)
C13_CriticalSection ==
    /\ \A t \in Threads :
          /\ (cf[t].pc \in {"list", "create"}) => lock = t
          /\ (cf[t].pc = "create")
             => /\ cf[t].year \notin folders
                /\ ~Contains(cached, cf[t].year)
    /\ (lock # Free) => cf[lock].pc \in {"list", "create"}
    /\ \A y \in Years :
          \A j, k \in Entries("CREATE", y) :
             (j < k) => log[j].resp = "err"

\* one caller is about to send CREATE while another caller for the same
\* year waits for the lock
C13_Witness ==
    \E t, u \in Callers :
       /\ t # u
       /\ cf[t].pc = "create"
       /\ cf[u].pc = "lock"
       /\ cf[u].year = cf[t].year

(***************************************************************************)
(* C14  create_folder gives up the cache lock before it returns, however   *)
(* it ends (cache hit, folder found, folder created, LIST error, more than *)
(* one LIST entry, CREATE error): a call that has ended does not hold the  *)
(* lock, and a later or concurrent caller acquires the lock and goes on,   *)
(* i.e. no call ends at line 47 because the lock cannot be had.            *)
(***************************************************************************)
C14_LockReleasedAndUsable ==
    \A t \in Threads :
       (cf[t].pc = "ret")
       => /\ lock # t
          /\ cf[t].res # "panic: PoisonError"

\* a fetched record without internal date, without identifier, or whose
\* year does not parse
Malformed(m) ==
    \/ ~IsSome(m.uid)
    \/ ~IsSome(m.date)
    \/ IsSome(m.date) /\ ~ParseOk(Unwrap(m.date))

(***************************************************************************)
(* C15  A fetched record without internal date, without identifier or with *)
(* a year that does not parse is fatal and never skipped: the classifier   *)
(* never gets past such a record, so a batch that holds one never reaches  *)
(* the loop over the years and causes no LIST, CREATE or MOVE.             *)
(***************************************************************************)
C15_MalformedFatal ==
    (pc \in {"classify", "years", "create_folder", "archive"})
    => \A i \in DOMAIN messages : (i <= mi) => ~Malformed(messages[i])

(***************************************************************************)
(* The run of main when every server call returns: the program is          *)
(* sequential, so whenever it has a step to take it takes one.  The clock  *)
(* is not the program's; nothing is assumed about it.                      *)
(***************************************************************************)
Run ==
    \/ MainPush
    \/ MainTail
    \/ Fetch
    \/ Classify
    \/ ForYear
    \/ CfLock(Main)
    \/ CfList(Main)
    \/ CfCreate(Main)
    \/ CreateFolderReturned
    \/ Archive

FairSpec == Init /\ [][Next]_vars /\ WF_vars(Run)

\* main has returned: Ok(()) at line 150, or the first error or panic
Terminated == pc \in {"done", "aborted"}

(***************************************************************************)
(* C16  Every run terminates, given that every server call returns: it     *)
(* ends either completed (all batches processed) or aborted (first error), *)
(* and stays there; there is no third outcome and no state from which the  *)
(* run goes on forever.                                                    *)
(***************************************************************************)
C16_Terminates == <>[]Terminated

\* a run over two batches that completed, its last request a MOVE
C16_Witness ==
    /\ pc = "done"
    /\ Len(handed) = 2
    /\ log # <<>>
    /\ Last(log).op = "MOVE"

(***************************************************************************)
(* C17  The current year is computed once per batch: two records of one    *)
(* batch with the same derived year are both skipped or both grouped, even *)
(* when the clock crosses a year boundary while the batch is classified.   *)
(***************************************************************************)
C17_OneClockPerBatch ==
    Grouped
    => /\ \A i, j \in DOMAIN reads : reads[i] = reads[j]
       /\ \A y \in Years :
             LET same == {i \in DOMAIN messages : DerivedYear(i) = y}
             IN  \/ same \subseteq Skipped
                 \/ same \cap Skipped = {}

(***************************************************************************)
(* C18  When the fetched records name an identifier more than once, the    *)
(* YearGroup entry for its year holds the identifier exactly once (set     *)
(* semantics), and so does the identifier list of the MOVE request: no     *)
(* YearGroup entry and no MOVE request lists an identifier twice.          *)
(***************************************************************************)
C18_NoDuplicateInGroup ==
    /\ Grouped
       => \A y \in DOMAIN years :
             Cardinality(Range(years[y])) = Len(years[y])
    /\ \A j \in DOMAIN log :
          (log[j].op = "MOVE")
          => Cardinality(Range(log[j].uids)) = Len(log[j].uids)

(***************************************************************************)
(* C19  A MOVE to Archives/<Y> is sent only while Y is in the cache of     *)
(* years known to exist: whenever the server receives a MOVE, the year of  *)
(* its target folder is in the cache at that moment (put there by the      *)
(* create_folder call before it, or by an earlier one).                    *)
(***************************************************************************)
C19_MoveOnlyWhenCached ==
    [][(/\ Len(log') = Len(log) + 1
        /\ Last(log').op = "MOVE")
       => \E y \in Years :
             /\ Last(log').folder = year_to_folder(y)
             /\ Contains(cached, y)
             /\ Contains(cached', y)]_vars

\* the second MOVE to a folder, sent in the second batch after a cache hit:
\* the server saw one LIST or CREATE that settled the folder, and two MOVEs
C19_Witness ==
    /\ log # <<>>
    /\ Last(log).op = "MOVE"
    /\ Len(handed) = 2
    /\ \E y \in Years :
          /\ Last(log).folder = year_to_folder(y)
          /\ MoveCount(y) = 2
          /\ ListCount(y) = 1
          /\ Contains(cached, y)

\* the MOVE requests of the run, and those of the batch being processed
\* (the ones after the last FETCH)
MoveIdx == {k \in DOMAIN log : log[k].op = "MOVE"}
BatchMoves(y) ==
    {k \in MoveIdx :
       /\ log[k].folder = year_to_folder(y)
       /\ \A j \in DOMAIN log : (j > k) => log[j].op # "FETCH"}
Moved == UNION {Range(log[k].uids) : k \in MoveIdx}

(***************************************************************************)
(* C20  In a run that completes without error every fetched message whose  *)
(* derived year differs from the current year (as read when the message    *)
(* was compared) is in exactly one MOVE request, the one to the folder of  *)
(* its derived year, and each (batch, year) pair has exactly one MOVE,     *)
(* which carries exactly that pair's identifiers.  When a batch has been   *)
(* processed, each year with messages to archive has had one MOVE since    *)
(* the FETCH, carrying the identifiers of exactly those messages, and a    *)
(* year without such messages none; when the run has completed, every      *)
(* request was answered without error, every moved identifier went to the  *)
(* folder of its year, no identifier is in two MOVE requests, and (the     *)
(* clock not having moved) the moved identifiers are exactly those of the  *)
(* messages not of the current year.                                       *)
(***************************************************************************)
C20_AllArchivedOnce ==
    /\ (pc = "years" /\ todo = {})
       => \A y \in Years :
             IF Belong(y) = {}
             THEN BatchMoves(y) = {}
             ELSE /\ Cardinality(BatchMoves(y)) = 1
                  /\ \A k \in BatchMoves(y) :
                        /\ log[k].resp = "ok"
                        /\ Range(log[k].uids) =
                              {Unwrap(messages[i].uid) : i \in Belong(y)}
    /\ (pc = "done")
       => /\ \A k \in DOMAIN log : log[k].resp = "ok"
          /\ \A k \in MoveIdx :
                \A u \in Range(log[k].uids) :
                   log[k].folder = year_to_folder(DateOf(u))
          /\ \A j, k \in MoveIdx :
                (j # k) => Range(log[j].uids) \cap Range(log[k].uids) = {}
          /\ Moved \subseteq Range(uids)
          /\ ~ticked => Moved = {u \in Range(uids) : DateOf(u) # now}

\* a completed run of two batches, no message of the current year, the
\* first batch with messages of two years: three MOVE requests
C20_Witness ==
    /\ pc = "done"
    /\ ~ticked
    /\ Len(handed) = 2
    /\ Cardinality(MoveIdx) = 3
    /\ Moved = Range(uids)

====
